---- MODULE Spec2Model ----
(***************************************************************************)
(* Model of openrazer's keyboard input core                                *)
(* (daemon/openrazer_daemon/misc/key_event_management.py):                 *)
(*   - KeyWatcher: the thread that grabs, polls, reads and closes the      *)
(*     event files and forwards every decoded event to key_action;         *)
(*   - KeyboardKeyManager: the temporary key store and its reader, the     *)
(*     reserved-key interception of key_action, and close().               *)
(* The watcher thread, a reader of temp_key_store, a caller of close(),    *)
(* the setter of temp_key_store_state and the wall clock are separate      *)
(* processes; each action is one step of one of them.                      *)
(* The client library's Binding class (pylib/openrazer/client/binding.py)  *)
(* is a further process: each of its methods is one action.                *)
(***************************************************************************)
EXTENDS Integers, Sequences, FiniteSets, Bags, TLC

\* ------------------------------------------------------------- bounds
NumSources == 2   \* at most this many event files are handed to the manager
MaxPolls   == 2   \* select() reports readable sources in at most this many cycles
MaxRecords == 3   \* the devices deliver at most this many event records
MaxTime    == 3   \* the clock stops ticking at this time (seconds)
MaxClose   == 2   \* close() is called at most this many times (close(), __del__)
MaxCalls   == 2   \* the client's calls reach the DBus interface at most this often

\* ------------------------------------------------- program constants
EV_KEY         == 1     \* ecodes.ecodes['EV_KEY']
TTL            == 2     \* _temp_expire_time, seconds
GAMEMODE       == 189
BRIGHTNESSUP   == 194
BRIGHTNESSDOWN == 190
MACROMODE      == 188
BrightnessStep == 10
MaxBrightness  == 100
MinBrightness  == 0
NoKey          == 0     \* macro_key is None
MacroSlots     == {183, 184, 185, 186, 187}   \* M1 .. M5
ReservedCodes  == {GAMEMODE, BRIGHTNESSUP, BRIGHTNESSDOWN, MACROMODE}

\* The key-symbol table (openrazer_daemon.keyboard.KEY_MAPPING): a partial
\* table from key codes to key names.  Code 240 (KEY_UNKNOWN) has no entry.
KEY_MAP ==
  (30 :> "A") @@ (48 :> "B") @@ (183 :> "M1") @@ (184 :> "M2") @@
  (185 :> "M3") @@ (186 :> "M4") @@ (187 :> "M5") @@ (188 :> "MACROMODE") @@
  (189 :> "GAMEMODE") @@ (190 :> "BRIGHTNESSDOWN") @@ (194 :> "BRIGHTNESSUP")

VARIABLES
  event_files,  \* number of event files given to the constructor (fixed)
  wpc,          \* KeyWatcher thread: position in run() / _poll()
  shutdown,     \* KeyWatcher._shutdown
  gi,           \* index of the device the grab loop / close loop is at
  r,            \* _poll: readable sources still to be read in this cycle
  events,       \* _poll: records of the current batch still to be handled
  ka,           \* arguments and locals of the key_action call in progress or,
                \* once it has returned or raised, of the last call
  polls,        \* number of cycles in which select() reported a readable source
  nreads,       \* number of read() calls made
  nrecords,     \* number of event records read() has returned
  grabs,        \* per source: number of grab() attempts
  grabbed,      \* sources whose grab() succeeded
  closes,       \* per source: number of close() attempts
  closeFailed,  \* sources whose close() raised
  readFailed,   \* a read() has raised OSError
  store,        \* _temp_key_store: sequence of <<expiry, symbol>>
  capture,      \* _temp_key_store_active
  recorded,     \* history: every entry ever appended to the store
  raced,        \* history: key_action's store steps overlapped a locked read
  lock,         \* _access_lock: "free" or "reader"
  rpc,          \* temp_key_store reader: position in the getter
  rnow,         \* reader's `now`
  result,       \* value returned by the last temp_key_store read
  clock,        \* datetime.datetime.now(), in seconds
  gameMode,     \* parent's game mode flag
  brightness,   \* parent's brightness
  macro_mode,   \* parent.binding_manager.macro_mode
  macro_key,    \* parent.binding_manager.macro_key
  inflight,     \* bag of started, unfinished binding_manager.key_press threads
  added,        \* sequence of parent.addAction calls <<key, kind, value>>
  registered,   \* the manager is in the parent's observer list
  cpc,          \* caller of close(): "idle" or "join"
  closeLog,     \* per close() call: number of side effects it performed
  dbus_calls,   \* client library: number of calls made on the DBus interface
  call,         \* client library: the last Binding method call and its outcome
  ipc           \* KeyboardKeyManager.__init__: the attribute it assigns next,
                \* once the watcher is started, or "done"

watcherVars == <<wpc, shutdown, gi, r, events, ka, polls, nreads, nrecords, grabs,
                 grabbed, closes, closeFailed, readFailed>>
storeVars   == <<store, capture, recorded, raced>>
readerVars  == <<lock, rpc, rnow, result>>
parentVars  == <<gameMode, brightness, macro_mode, macro_key, inflight, added>>
closerVars  == <<registered, cpc, closeLog>>
clientVars  == <<dbus_calls, call>>
daemonVars  == <<event_files, watcherVars, storeVars, readerVars, parentVars,
                 closerVars, clock, ipc>>
vars == <<daemonVars, clientVars>>

Sources == 1 .. event_files

\* threading.Thread.is_alive() of the KeyWatcher
Alive == wpc \notin {"unstarted", "stopped", "crashed"}

\* key_action's evict-and-append section (lines 222-235), stepwise runs
StoreSection == {"ka_test", "ka_pop", "ka_record"}

\* No key_action call has been made yet
NoCall == [code |-> NoKey, action |-> "none", now |-> 0,
           game_mode |-> FALSE, current_brightness |-> 0,
           macro_mode |-> FALSE, macro_key |-> NoKey]

\* The frame of a key_action call that has read nothing from the parent yet
Entered(code, action, now) ==
  [NoCall EXCEPT !.code = code, !.action = action, !.now = now]

\* ------------------------------------------------------ raw events
KeyEvent(code, value) == [type |-> EV_KEY, code |-> code, value |-> value]
SynEvent == [type |-> 0, code |-> 0, value |-> 0]

\* KeyWatcher.parse_event_record
parse_event_record(event) ==
  IF event.type = EV_KEY
  THEN [action |-> CASE event.value = 0 -> "release"
                     [] event.value = 1 -> "press"
                     [] event.value = 2 -> "autorepeat"
                     [] OTHER -> "unknown",
        code |-> event.code]
  ELSE [action |-> "none", code |-> NoKey]

\* All batches of at most n records read() can return from a device that
\* emits the records E
Batches(E, n) == UNION {[1 .. k -> E] : k \in 0 .. n}

\* select() returns the readable sources in the order of the fd map
ReadySeqs ==
  {s \in UNION {[1 .. n -> Sources] : n \in 0 .. event_files} :
     \A i \in 1 .. Len(s) : \A j \in 1 .. Len(s) : i < j => s[i] < s[j]}

\* ------------------------------------------- KeyboardKeyManager helpers
\* Variant: the time to live is counted twice, so live entries are evicted
ExpiredEarly(entry, now) == entry[1] < now + TTL

\* `self._temp_key_store[0][0] < now`: the entry's expiry is before now
Expired(entry, now) == entry[1] < now

\* The whole `while ...: pop(0)` loop, run without interruption
RECURSIVE EvictAll(_, _)
EvictAll(s, now) ==
  IF s = <<>> THEN s
  ELSE IF Expired(Head(s), now) THEN EvictAll(Tail(s), now) ELSE s

\* Variant: the action is not looked at, every event is recorded
RecordsAnyAction(action) == capture

\* __init__ has assigned _temp_key_store_active and _temp_key_store (lines
\* 156-157)
HasStore == ipc \in {"expire_time", "key_map", "done"}

\* key_action reads an attribute __init__ has not assigned yet: the store in
\* the loop test of line 227, or the time to live and the key map in the
\* append of line 235; that raises AttributeError
MissingAttribute(action) ==
  ~HasStore \/ (action = "press" /\ capture /\ ipc # "done")

\* `key_press == 'press' and self.temp_key_store_state`
Records(action) == action = "press" /\ capture

\* Variant: the symbol is looked up before the action and the capture flag
\* are tested
LookupFailsEager(code, action) == code \notin DOMAIN KEY_MAP

\* `self.KEY_MAP[key_id]` raises KeyError for a code without an entry
LookupFails(code, action) == Records(action) /\ code \notin DOMAIN KEY_MAP

\* `(now + self._temp_expire_time, self.KEY_MAP[key_id])`
Entry(code, now) == <<now + TTL, KEY_MAP[code]>>

\* Variant: the key switches game mode on instead of toggling it
GameModeOn(g) == TRUE

\* `not game_mode`
ToggledGameMode(g) == ~g

Min(a, b) == IF a < b THEN a ELSE b
Max(a, b) == IF a > b THEN a ELSE b

\* Variant: the result is written back without the clamp
NewBrightnessUnclamped(code, b) ==
  IF code = BRIGHTNESSUP THEN b + BrightnessStep ELSE b - BrightnessStep

\* lines 245-253: +10 or -10, then max(min(x, 100), 0)
NewBrightness(code, b) ==
  LET c == IF code = BRIGHTNESSUP THEN b + BrightnessStep ELSE b - BrightnessStep
  IN  Max(Min(c, MaxBrightness), MinBrightness)

\* Variant: a macro slot key overwrites the macro key being recorded
NewMacroKeyOverwrite(cur, code) == code

\* lines 259-263: a macro slot key sets macro_key only when it is None
NewMacroKey(cur, code) == IF cur = NoKey THEN code ELSE cur

\* parent.getActiveProfile() / parent.getActiveMap()
ActiveProfile == "Default"
ActiveMap     == "Default"

\* Variant: only the release is told apart, every other action is a "key"
MacroActionElseKey(key, code, action) ==
  IF action = "release"
  THEN <<<<ActiveProfile, ActiveMap, ToString(key), "release", ToString(code)>>>>
  ELSE <<<<ActiveProfile, ActiveMap, ToString(key), "key", ToString(code)>>>>

\* lines 270-273: the addAction call of a recorded key, if any
MacroAction(key, code, action) ==
  IF action = "press"
  THEN <<<<ActiveProfile, ActiveMap, ToString(key), "key", ToString(code)>>>>
  ELSE IF action = "release"
  THEN <<<<ActiveProfile, ActiveMap, ToString(key), "release", ToString(code)>>>>
  ELSE <<>>

\* Variant: the thread is created but never started
StartedNothing(bag, code, action) == bag

\* lines 280-281: start a thread running binding_manager.key_press
Started(bag, code, action) == bag (+) SetToBag({<<code, action>>})

\* Variant: the macro slot key that starts a recording also ends macro mode
InterceptSlotExits(code, action) ==
  IF code = GAMEMODE THEN
    /\ gameMode' = ToggledGameMode(gameMode)
    /\ UNCHANGED <<brightness, macro_mode, macro_key, inflight, added>>
  ELSE IF code \in {BRIGHTNESSUP, BRIGHTNESSDOWN} THEN
    /\ brightness' = NewBrightness(code, brightness)
    /\ UNCHANGED <<gameMode, macro_mode, macro_key, inflight, added>>
  ELSE IF code = MACROMODE THEN
    /\ macro_mode' = ~macro_mode
    /\ UNCHANGED <<gameMode, brightness, macro_key, inflight, added>>
  ELSE IF macro_mode THEN
    IF code \in MacroSlots THEN
      /\ macro_key' = NewMacroKey(macro_key, code)
      /\ macro_mode' = FALSE
      /\ UNCHANGED <<gameMode, brightness, inflight, added>>
    ELSE IF macro_key # NoKey THEN
      /\ added' = added \o MacroAction(macro_key, code, action)
      /\ UNCHANGED <<gameMode, brightness, macro_mode, macro_key, inflight>>
    ELSE
      /\ macro_mode' = FALSE
      /\ UNCHANGED <<gameMode, brightness, macro_key, inflight, added>>
  ELSE
    /\ inflight' = Started(inflight, code, action)
    /\ UNCHANGED <<gameMode, brightness, macro_mode, macro_key, added>>

\* Variant: the macro mode test comes before the tests of the reserved codes
InterceptMacroFirst(code, action) ==
  IF macro_mode /\ code # MACROMODE THEN
    IF code \in MacroSlots THEN
      /\ macro_key' = NewMacroKey(macro_key, code)
      /\ UNCHANGED <<gameMode, brightness, macro_mode, inflight, added>>
    ELSE IF macro_key # NoKey THEN
      /\ added' = added \o MacroAction(macro_key, code, action)
      /\ UNCHANGED <<gameMode, brightness, macro_mode, macro_key, inflight>>
    ELSE
      /\ macro_mode' = FALSE
      /\ UNCHANGED <<gameMode, brightness, macro_key, inflight, added>>
  ELSE IF code = GAMEMODE THEN
    /\ gameMode' = ToggledGameMode(gameMode)
    /\ UNCHANGED <<brightness, macro_mode, macro_key, inflight, added>>
  ELSE IF code \in {BRIGHTNESSUP, BRIGHTNESSDOWN} THEN
    /\ brightness' = NewBrightness(code, brightness)
    /\ UNCHANGED <<gameMode, macro_mode, macro_key, inflight, added>>
  ELSE IF code = MACROMODE THEN
    /\ macro_mode' = ~macro_mode
    /\ UNCHANGED <<gameMode, brightness, macro_key, inflight, added>>
  ELSE
    /\ inflight' = Started(inflight, code, action)
    /\ UNCHANGED <<gameMode, brightness, macro_mode, macro_key, added>>

\* Variant: an ordinary key in macro mode without a macro key only logs the
\* warning
InterceptWarnsOnly(code, action) ==
  IF code = GAMEMODE THEN
    /\ gameMode' = ToggledGameMode(gameMode)
    /\ UNCHANGED <<brightness, macro_mode, macro_key, inflight, added>>
  ELSE IF code \in {BRIGHTNESSUP, BRIGHTNESSDOWN} THEN
    /\ brightness' = NewBrightness(code, brightness)
    /\ UNCHANGED <<gameMode, macro_mode, macro_key, inflight, added>>
  ELSE IF code = MACROMODE THEN
    /\ macro_mode' = ~macro_mode
    /\ UNCHANGED <<gameMode, brightness, macro_key, inflight, added>>
  ELSE IF macro_mode THEN
    IF code \in MacroSlots THEN
      /\ macro_key' = NewMacroKey(macro_key, code)
      /\ UNCHANGED <<gameMode, brightness, macro_mode, inflight, added>>
    ELSE IF macro_key # NoKey THEN
      /\ added' = added \o MacroAction(macro_key, code, action)
      /\ UNCHANGED <<gameMode, brightness, macro_mode, macro_key, inflight>>
    ELSE
      UNCHANGED <<gameMode, brightness, macro_mode, macro_key, inflight, added>>
  ELSE
    /\ inflight' = Started(inflight, code, action)
    /\ UNCHANGED <<gameMode, brightness, macro_mode, macro_key, added>>

\* lines 238-281: the interception branches of key_action
Intercept(code, action) ==
  IF code = GAMEMODE THEN
    /\ gameMode' = ToggledGameMode(gameMode)
    /\ UNCHANGED <<brightness, macro_mode, macro_key, inflight, added>>
  ELSE IF code \in {BRIGHTNESSUP, BRIGHTNESSDOWN} THEN
    /\ brightness' = NewBrightness(code, brightness)
    /\ UNCHANGED <<gameMode, macro_mode, macro_key, inflight, added>>
  ELSE IF code = MACROMODE THEN
    /\ macro_mode' = ~macro_mode
    /\ UNCHANGED <<gameMode, brightness, macro_key, inflight, added>>
  ELSE IF macro_mode THEN
    IF code \in MacroSlots THEN
      /\ macro_key' = NewMacroKey(macro_key, code)
      /\ UNCHANGED <<gameMode, brightness, macro_mode, inflight, added>>
    ELSE IF macro_key # NoKey THEN
      /\ added' = added \o MacroAction(macro_key, code, action)
      /\ UNCHANGED <<gameMode, brightness, macro_mode, macro_key, inflight>>
    ELSE
      /\ macro_mode' = FALSE
      /\ UNCHANGED <<gameMode, brightness, macro_key, inflight, added>>
  ELSE
    /\ inflight' = Started(inflight, code, action)
    /\ UNCHANGED <<gameMode, brightness, macro_mode, macro_key, added>>

\* The frame of a key_action call: its arguments, `now` (line 222) and what
\* it reads from the parent: game_mode (line 241), current_brightness (line
\* 245, as read), macro_mode (line 258) and macro_key (lines 260, 265)
Frame(code, action, now) ==
  [code |-> code, action |-> action, now |-> now,
   game_mode |-> (code = GAMEMODE /\ gameMode),
   current_brightness |->
     IF code \in {BRIGHTNESSUP, BRIGHTNESSDOWN} THEN brightness ELSE 0,
   macro_mode |-> (code \notin ReservedCodes /\ macro_mode),
   macro_key |->
     IF code \notin ReservedCodes /\ macro_mode THEN macro_key ELSE NoKey]

\* ----------------------------------------------------- KeyWatcher.run
\* Variant: the exception of a failed grab is not caught and ends the thread
GrabFatal ==
  /\ wpc = "grab"
  /\ grabs' = [grabs EXCEPT ![gi] = @ + 1]
  /\ \E ok \in BOOLEAN :
       IF ok
       THEN /\ grabbed' = grabbed \cup {gi}
            /\ IF gi < event_files
               THEN gi' = gi + 1 /\ wpc' = wpc
               ELSE gi' = 1 /\ wpc' = "loop"
       ELSE /\ wpc' = "crashed"
            /\ UNCHANGED <<grabbed, gi>>
  /\ UNCHANGED <<shutdown, r, events, ka, polls, nreads, nrecords, closes, closeFailed,
                 readFailed, storeVars, readerVars, parentVars, closerVars,
                 clock, event_files, clientVars, ipc>>

\* lines 67-72: grab each device once; a failure is logged and ignored
Grab ==
  /\ wpc = "grab"
  /\ grabs' = [grabs EXCEPT ![gi] = @ + 1]
  /\ \E ok \in BOOLEAN : grabbed' = IF ok THEN grabbed \cup {gi} ELSE grabbed
  /\ IF gi < event_files
     THEN gi' = gi + 1 /\ wpc' = wpc
     ELSE gi' = 1 /\ wpc' = "loop"
  /\ UNCHANGED <<shutdown, r, events, ka, polls, nreads, nrecords, closes, closeFailed,
                 readFailed, storeVars, readerVars, parentVars, closerVars,
                 clock, event_files, clientVars, ipc>>

\* Variant: `while True`, the shutdown flag is never looked at
LoopForever ==
  /\ wpc = "loop"
  /\ wpc' = "select"
  /\ UNCHANGED <<shutdown, gi, r, events, ka, polls, nreads, nrecords, grabs, grabbed,
                 closes, closeFailed, readFailed, storeVars, readerVars,
                 parentVars, closerVars, clock, event_files, clientVars, ipc>>

\* line 75: `while not self._shutdown`
LoopTest ==
  /\ wpc = "loop"
  /\ wpc' = IF shutdown THEN "closing" ELSE "select"
  /\ UNCHANGED <<shutdown, gi, r, events, ka, polls, nreads, nrecords, grabs, grabbed,
                 closes, closeFailed, readFailed, storeVars, readerVars,
                 parentVars, closerVars, clock, event_files, clientVars, ipc>>

\* line 94: select() on the fd map, with a timeout
Select ==
  /\ wpc = "select"
  /\ \E ready \in ReadySeqs :
       /\ ready # <<>> => polls < MaxPolls
       /\ r' = ready
       /\ polls' = IF ready = <<>> THEN polls ELSE polls + 1
       /\ wpc' = IF ready = <<>> THEN "sleep" ELSE "read"
  /\ UNCHANGED <<shutdown, gi, events, ka, nreads, nrecords, grabs, grabbed, closes,
                 closeFailed, readFailed, storeVars, readerVars, parentVars,
                 closerVars, clock, event_files, clientVars, ipc>>

\* Variant: a failed read is logged but the shutdown flag is not set
ReadKeepsGoing(E) ==
  /\ wpc = "read"
  /\ nreads' = nreads + 1
  /\ \/ /\ readFailed' = TRUE
        /\ r' = <<>> /\ events' = <<>>
        /\ wpc' = "sleep"
        /\ UNCHANGED nrecords
        /\ UNCHANGED shutdown
     \/ \E batch \in Batches(E, MaxRecords - nrecords) :
          /\ events' = batch
          /\ nrecords' = nrecords + Len(batch)
          /\ r' = IF batch = <<>> THEN <<>> ELSE Tail(r)
          /\ wpc' = IF batch = <<>> THEN "sleep" ELSE "event"
          /\ UNCHANGED <<shutdown, readFailed>>
  /\ UNCHANGED <<gi, ka, polls, grabs, grabbed, closes, closeFailed,
                 storeVars, readerVars, parentVars, closerVars, clock,
                 event_files, clientVars, ipc>>

\* lines 96-98 and 78-80: read the next readable source.  The read raises
\* OSError (caught by run: shutdown is set), returns nothing (`break`), or
\* returns a batch of records from E.
Read(E) ==
  /\ wpc = "read"
  /\ nreads' = nreads + 1
  /\ \/ /\ readFailed' = TRUE
        /\ shutdown' = TRUE
        /\ r' = <<>> /\ events' = <<>>
        /\ wpc' = "sleep"
        /\ UNCHANGED nrecords
     \/ \E batch \in Batches(E, MaxRecords - nrecords) :
          /\ events' = batch
          /\ nrecords' = nrecords + Len(batch)
          /\ r' = IF batch = <<>> THEN <<>> ELSE Tail(r)
          /\ wpc' = IF batch = <<>> THEN "sleep" ELSE "event"
          /\ UNCHANGED <<shutdown, readFailed>>
  /\ UNCHANGED <<gi, ka, polls, grabs, grabbed, closes, closeFailed,
                 storeVars, readerVars, parentVars, closerVars, clock,
                 event_files, clientVars, ipc>>

\* line 99: the `for event in events` loop has run out of records
BatchDone ==
  /\ wpc = "event" /\ events = <<>>
  /\ wpc' = IF r = <<>> THEN "sleep" ELSE "read"
  /\ UNCHANGED <<shutdown, gi, r, events, ka, polls, nreads, nrecords, grabs, grabbed,
                 closes, closeFailed, readFailed, storeVars, readerVars,
                 parentVars, closerVars, clock, event_files, clientVars, ipc>>

\* lines 99-106 with the whole of key_action (lines 222-281) as one step:
\* the watcher is the only thread that touches the store in these runs.
\* A KeyError of the symbol lookup, or an AttributeError, is no OSError: it
\* ends the thread.
Deliver ==
  /\ wpc = "event" /\ events # <<>>
  /\ LET p == parse_event_record(Head(events))
         kept == EvictAll(store, clock)
     IN  IF p.action = "none" THEN
           /\ events' = Tail(events)
           /\ UNCHANGED <<wpc, r, ka, store, recorded, parentVars>>
         ELSE IF MissingAttribute(p.action) THEN
           /\ store' = IF HasStore THEN kept ELSE store
           /\ wpc' = "crashed" /\ r' = <<>> /\ events' = <<>>
           /\ ka' = Entered(p.code, p.action, clock)
           /\ UNCHANGED <<recorded, parentVars>>
         ELSE IF LookupFails(p.code, p.action) THEN
           /\ store' = kept
           /\ wpc' = "crashed" /\ r' = <<>> /\ events' = <<>>
           /\ ka' = Entered(p.code, p.action, clock)
           /\ UNCHANGED <<recorded, parentVars>>
         ELSE
           /\ events' = Tail(events)
           /\ ka' = Frame(p.code, p.action, clock)
           /\ IF Records(p.action)
              THEN /\ store' = Append(kept, Entry(p.code, clock))
                   /\ recorded' = Append(recorded, Entry(p.code, clock))
              ELSE store' = kept /\ recorded' = recorded
           /\ Intercept(p.code, p.action)
           /\ UNCHANGED <<wpc, r>>
  /\ UNCHANGED <<shutdown, gi, polls, nreads, nrecords, grabs, grabbed, closes,
                 closeFailed, readFailed, capture, raced, readerVars,
                 closerVars, clock, event_files, clientVars, ipc>>

\* line 82: time.sleep(SPIN_SLEEP)
Sleep ==
  /\ wpc = "sleep"
  /\ wpc' = "loop"
  /\ UNCHANGED <<shutdown, gi, r, events, ka, polls, nreads, nrecords, grabs, grabbed,
                 closes, closeFailed, readFailed, storeVars, readerVars,
                 parentVars, closerVars, clock, event_files, clientVars, ipc>>

\* lines 87-91: close each device once; whatever close() raises is dropped
CloseDevice ==
  /\ wpc = "closing"
  /\ closes' = [closes EXCEPT ![gi] = @ + 1]
  /\ \E ok \in BOOLEAN :
       closeFailed' = IF ok THEN closeFailed ELSE closeFailed \cup {gi}
  /\ IF gi < event_files
     THEN gi' = gi + 1 /\ wpc' = wpc
     ELSE gi' = 1 /\ wpc' = "stopped"
  /\ UNCHANGED <<shutdown, r, events, ka, polls, nreads, nrecords, grabs, grabbed,
                 readFailed, storeVars, readerVars, parentVars, closerVars,
                 clock, event_files, clientVars, ipc>>

\* ------------------------------- key_action, one bytecode-level step each
\* These steps replace Deliver in the runs where another thread reads the
\* store: key_action takes no lock, so the reader can run between them.
RaceUpdate == raced' = (raced \/ (lock' = "reader" /\ wpc' \in StoreSection))

\* lines 99-106 and 222: decode the record, call key_action, take `now`
DeliverCall ==
  /\ wpc = "event" /\ events # <<>>
  /\ LET p == parse_event_record(Head(events))
     IN  /\ events' = Tail(events)
         /\ IF p.action = "none"
            THEN UNCHANGED <<wpc, ka>>
            ELSE /\ ka' = Entered(p.code, p.action, clock)
                 /\ wpc' = "ka_test"
  /\ UNCHANGED lock /\ RaceUpdate
  /\ UNCHANGED <<shutdown, gi, r, polls, nreads, nrecords, grabs, grabbed, closes,
                 closeFailed, readFailed, store, capture, recorded, rpc, rnow,
                 result, parentVars, closerVars, clock, event_files, clientVars, ipc>>

\* line 227: the loop test; IndexError on an empty store ends the loop,
\* AttributeError on a store not yet assigned ends the thread
KaEvictTest ==
  /\ wpc = "ka_test"
  /\ IF ~HasStore
     THEN wpc' = "crashed" /\ r' = <<>> /\ events' = <<>>
     ELSE /\ wpc' = IF store # <<>> /\ Expired(Head(store), ka.now)
                    THEN "ka_pop" ELSE "ka_record"
          /\ UNCHANGED <<r, events>>
  /\ UNCHANGED lock /\ RaceUpdate
  /\ UNCHANGED <<shutdown, gi, ka, polls, nreads, nrecords, grabs, grabbed,
                 closes, closeFailed, readFailed, store, capture, recorded,
                 rpc, rnow, result, parentVars, closerVars, clock, event_files, clientVars, ipc>>

\* line 228: pop(0); IndexError on an empty store ends the loop
KaEvictPop ==
  /\ wpc = "ka_pop"
  /\ IF store = <<>>
     THEN store' = store /\ wpc' = "ka_record"
     ELSE store' = Tail(store) /\ wpc' = "ka_test"
  /\ UNCHANGED lock /\ RaceUpdate
  /\ UNCHANGED <<shutdown, gi, r, events, ka, polls, nreads, nrecords, grabs, grabbed,
                 closes, closeFailed, readFailed, capture, recorded, rpc, rnow,
                 result, parentVars, closerVars, clock, event_files, clientVars, ipc>>

\* lines 234-235: append the press, or die of the KeyError (or of the
\* AttributeError)
KaRecord ==
  /\ wpc = "ka_record"
  /\ IF MissingAttribute(ka.action) \/ LookupFails(ka.code, ka.action) THEN
       /\ wpc' = "crashed" /\ r' = <<>> /\ events' = <<>>
       /\ UNCHANGED <<ka, store, recorded>>
     ELSE
       /\ wpc' = "ka_branch"
       /\ IF Records(ka.action)
          THEN /\ store' = Append(store, Entry(ka.code, ka.now))
               /\ recorded' = Append(recorded, Entry(ka.code, ka.now))
          ELSE UNCHANGED <<store, recorded>>
       /\ UNCHANGED <<r, events, ka>>
  /\ UNCHANGED lock /\ RaceUpdate
  /\ UNCHANGED <<shutdown, gi, polls, nreads, nrecords, grabs, grabbed, closes,
                 closeFailed, readFailed, capture, rpc, rnow, result,
                 parentVars, closerVars, clock, event_files, clientVars, ipc>>

\* lines 238-281: the interception branches, then return to _poll
KaBranch ==
  /\ wpc = "ka_branch"
  /\ Intercept(ka.code, ka.action)
  /\ wpc' = "event" /\ ka' = Frame(ka.code, ka.action, ka.now)
  /\ UNCHANGED <<shutdown, gi, r, events, polls, nreads, nrecords, grabs, grabbed,
                 closes, closeFailed, readFailed, storeVars, readerVars,
                 closerVars, clock, event_files, clientVars, ipc>>

\* --------------------------------- KeyboardKeyManager.temp_key_store
\* lines 171-172: acquire the lock, take `now`
ReadAcquire ==
  /\ rpc = "idle" /\ lock = "free"
  /\ lock' = "reader" /\ rnow' = clock /\ rpc' = "test" /\ result' = <<>>
  /\ UNCHANGED wpc /\ RaceUpdate
  /\ UNCHANGED <<shutdown, gi, r, events, ka, polls, nreads, nrecords, grabs, grabbed,
                 closes, closeFailed, readFailed, store, capture, recorded,
                 parentVars, closerVars, clock, event_files, clientVars, ipc>>

\* line 177
ReadEvictTest ==
  /\ rpc = "test"
  /\ rpc' = IF store # <<>> /\ Expired(Head(store), rnow) THEN "pop" ELSE "copy"
  /\ UNCHANGED <<watcherVars, storeVars, lock, rnow, result, parentVars,
                 closerVars, clock, event_files, clientVars, ipc>>

\* line 178
ReadEvictPop ==
  /\ rpc = "pop"
  /\ IF store = <<>>
     THEN store' = store /\ rpc' = "copy"
     ELSE store' = Tail(store) /\ rpc' = "test"
  /\ UNCHANGED <<watcherVars, capture, recorded, raced, lock, rnow, result,
                 parentVars, closerVars, clock, event_files, clientVars, ipc>>

\* lines 184-186: copy, release, return
ReadCopy ==
  /\ rpc = "copy"
  /\ result' = store /\ lock' = "free" /\ rpc' = "idle"
  /\ UNCHANGED <<watcherVars, storeVars, rnow, parentVars, closerVars, clock,
                 event_files, clientVars, ipc>>

\* temp_key_store_state setter, called by whoever wants the presses recorded
SetCapture ==
  /\ capture' = ~capture
  /\ UNCHANGED <<watcherVars, store, recorded, raced, readerVars, parentVars,
                 closerVars, clock, event_files, clientVars, ipc>>

\* datetime.datetime.now() moves on
Tick ==
  /\ clock < MaxTime
  /\ clock' = clock + 1
  /\ UNCHANGED <<watcherVars, storeVars, readerVars, parentVars, closerVars,
                 event_files, clientVars, ipc>>

\* a binding_manager.key_press thread started by key_action finishes
KeyPressDone ==
  /\ \E t \in BagToSet(inflight) : inflight' = inflight (-) SetToBag({t})
  /\ UNCHANGED <<watcherVars, storeVars, readerVars, gameMode, brightness,
                 macro_mode, macro_key, added, closerVars, clock, event_files, clientVars, ipc>>

\* --------------------------------------- KeyboardKeyManager.__init__
\* lines 156-160, which run after the watcher was started in line 152: one
\* assignment per step
Construct ==
  /\ ipc # "done"
  /\ CASE ipc = "store_active" -> ipc' = "store" /\ capture' = FALSE /\ UNCHANGED store
       [] ipc = "store"        -> ipc' = "expire_time" /\ store' = <<>> /\ UNCHANGED capture
       [] ipc = "expire_time"  -> ipc' = "key_map" /\ UNCHANGED <<store, capture>>
       [] ipc = "key_map"      -> ipc' = "done" /\ UNCHANGED <<store, capture>>
  /\ UNCHANGED <<watcherVars, recorded, raced, readerVars, parentVars,
                 closerVars, clock, event_files, clientVars>>

\* ------------------------------------------ KeyboardKeyManager.close
\* Effects of one close() call that found the watcher alive, up to the join:
\* remove_observer and the shutdown signal
EffectsBeforeJoin == 2

\* lines 287-291: if the watcher is alive, unregister and signal shutdown
CloseEnter ==
  /\ cpc = "idle" /\ Len(closeLog) < MaxClose
  /\ IF Alive
     THEN /\ registered' = FALSE
          /\ shutdown' = TRUE
          /\ closeLog' = Append(closeLog, EffectsBeforeJoin)
          /\ cpc' = "join"
     ELSE /\ closeLog' = Append(closeLog, 0)
          /\ UNCHANGED <<registered, shutdown, cpc>>
  /\ UNCHANGED <<wpc, gi, r, events, ka, polls, nreads, nrecords, grabs, grabbed, closes,
                 closeFailed, readFailed, storeVars, readerVars, parentVars,
                 clock, event_files, clientVars, ipc>>

\* lines 292-294: join(timeout=2) returns when the thread has ended or the
\* two seconds are over; a watcher still alive is reported as an error
CloseJoin ==
  /\ cpc = "join"
  /\ closeLog' = IF Alive
                 THEN [closeLog EXCEPT ![Len(closeLog)] = @ + 1]
                 ELSE closeLog
  /\ cpc' = "idle"
  /\ UNCHANGED <<watcherVars, storeVars, readerVars, parentVars, registered,
                 clock, event_files, clientVars, ipc>>

\* ------------------------------------ client library: class Binding
\* Python values, as far as Binding looks at them: their type and their text
PyStr(v)  == [type |-> "str", v |-> v]
PyInt(v)  == [type |-> "int", v |-> v]
PyBool(v) == [type |-> "bool", v |-> v]

\* line 8
action_types == {"key", "map", "shift", "sleep", "execute", "release"}

\* isinstance(x, str) / isinstance(x, int): bool is a subclass of int
isinstance(x, t) ==
  IF t = "int" THEN x.type \in {"int", "bool"} ELSE x.type = t

\* str(x)
str(x) == PyStr(x.v)

\* No Binding method has been called yet
NoBindingCall == [method |-> "none", args |-> <<>>, raised |-> "none",
                  sent |-> <<>>]

\* `raise ValueError(...)`: the method ends before it reaches the interface
RaiseValueError(method, args) ==
  /\ call' = [method |-> method, args |-> args, raised |-> "ValueError",
              sent |-> <<>>]
  /\ UNCHANGED dbus_calls

\* `self._binding_dbus.<member>(*msg)`: the call on the DBus interface.  What
\* the interface does with arguments that are no strings is up to dbus: it
\* marshals them or raises its own TypeError.
DBusCall(method, args, member, msg) ==
  /\ dbus_calls < MaxCalls
  /\ dbus_calls' = dbus_calls + 1
  /\ \E out \in IF \A i \in 1 .. Len(msg) : msg[i].type = "str"
                THEN {"none"} ELSE {"none", "TypeError"} :
       call' = [method |-> method, args |-> args, raised |-> out,
                sent |-> <<member>> \o msg]

\* The arguments a caller may pass
Values == {PyStr("Default"), PyStr("key"), PyInt("30"), PyBool("True")}

\* lines 38-48
add_profile ==
  /\ \E profile_name \in Values :
       DBusCall("add_profile", <<profile_name>>, "addProfile", <<profile_name>>)
  /\ UNCHANGED daemonVars

\* lines 50-60
remove_profile ==
  /\ \E profile \in Values :
       DBusCall("remove_profile", <<profile>>, "removeProfile", <<profile>>)
  /\ UNCHANGED daemonVars

\* lines 82-95
set_active_profile ==
  /\ \E profile \in Values :
       IF ~isinstance(profile, "str")
       THEN RaiseValueError("set_active_profile", <<profile>>)
       ELSE DBusCall("set_active_profile", <<profile>>,
                     "setActiveProfile", <<profile>>)
  /\ UNCHANGED daemonVars

\* lines 129-147
add_map ==
  /\ \E profile \in Values, map_name \in Values :
       IF ~isinstance(profile, "str") \/ ~isinstance(map_name, "str")
       THEN RaiseValueError("add_map", <<profile, map_name>>)
       ELSE DBusCall("add_map", <<profile, map_name>>,
                     "addMap", <<profile, map_name>>)
  /\ UNCHANGED daemonVars

\* lines 271-303
add_action ==
  /\ \E profile \in Values, mapping \in Values, key_code \in Values,
        action_type \in Values, value \in Values :
       LET args == <<profile, mapping, key_code, action_type, value>>
       IN  IF \/ ~isinstance(profile, "str")
              \/ ~isinstance(mapping, "str")
              \/ ~isinstance(key_code, "int")
              \/ ~(action_type.type = "str" /\ action_type.v \in action_types)
              \/ ~isinstance(value, "str")
           THEN RaiseValueError("add_action", args)
           ELSE DBusCall("add_action", args, "addAction",
                         <<profile, mapping, str(key_code), action_type, value>>)
  /\ UNCHANGED daemonVars

\* lines 305-332
remove_action ==
  /\ \E profile \in Values, mapping \in Values, key_code \in Values,
        action_id \in Values :
       LET args == <<profile, mapping, key_code, action_id>>
       IN  IF \/ ~isinstance(profile, "str")
              \/ ~isinstance(mapping, "str")
              \/ ~isinstance(key_code, "int")
              \/ ~isinstance(action_id, "int")
           THEN RaiseValueError("remove_action", args)
           ELSE DBusCall("remove_action", args, "removeAction",
                         <<profile, mapping, str(key_code), str(action_id)>>)
  /\ UNCHANGED daemonVars

\* ------------------------------------------------------ specifications
\* The state with KeyboardKeyManager.__init__ at position at: the observer
\* is registered, the watcher is started when there are event files, and the
\* store is (or will be) empty.
InitAt(files, levels, active, at) ==
  /\ ipc = at
  /\ event_files \in files
  /\ wpc = IF event_files > 0 THEN "grab" ELSE "unstarted"
  /\ shutdown = FALSE
  /\ gi = 1
  /\ r = <<>> /\ events = <<>> /\ ka = NoCall
  /\ polls = 0 /\ nreads = 0 /\ nrecords = 0
  /\ grabs = [s \in Sources |-> 0] /\ grabbed = {}
  /\ closes = [s \in Sources |-> 0] /\ closeFailed = {}
  /\ readFailed = FALSE
  /\ store = <<>> /\ capture = active /\ recorded = <<>> /\ raced = FALSE
  /\ lock = "free" /\ rpc = "idle" /\ rnow = 0 /\ result = <<>>
  /\ clock = 0
  /\ gameMode = FALSE
  /\ brightness \in levels
  /\ macro_mode = FALSE /\ macro_key = NoKey
  /\ inflight = EmptyBag /\ added = <<>>
  /\ registered = TRUE /\ cpc = "idle" /\ closeLog = <<>>
  /\ dbus_calls = 0 /\ call = NoBindingCall

\* The state after KeyboardKeyManager.__init__
InitWith(files, levels, active) == InitAt(files, levels, active, "done")

\* Records of a device: presses of a key missing from KEY_MAP, and spacers
WatcherEvents == {KeyEvent(240, 1), SynEvent}

\* The watcher's lifecycle: any number of event files, close() callers
Init == InitWith(0 .. NumSources, {50}, FALSE)

WatcherNext ==
  \/ Grab \/ LoopTest \/ Select \/ Read(WatcherEvents) \/ BatchDone
  \/ Deliver \/ Sleep \/ CloseDevice

Next ==
  \/ WatcherNext
  \/ SetCapture \/ CloseEnter \/ CloseJoin

Spec == Init /\ [][Next]_vars

\* The thread scheduler lets the watcher thread run
SpecFair == Spec /\ WF_vars(WatcherNext)

\* The key store under a concurrent reader: one event file, capture active,
\* presses and releases of a plain key, a ticking clock; key_action runs
\* stepwise
StoreEvents == {KeyEvent(30, 1), KeyEvent(30, 0)}

InitStore == InitWith({1}, {50}, TRUE)

NextStore ==
  \/ Grab \/ LoopTest \/ Select \/ Read(StoreEvents) \/ BatchDone
  \/ DeliverCall \/ KaEvictTest \/ KaEvictPop \/ KaRecord \/ KaBranch
  \/ Sleep \/ CloseDevice
  \/ ReadAcquire \/ ReadEvictTest \/ ReadEvictPop \/ ReadCopy
  \/ Tick

SpecStore == InitStore /\ [][NextStore]_vars

\* Key dispatch and macro recording: one event file; plain keys, macro
\* slot keys, the macro mode key and a key missing from KEY_MAP
MacroEvents ==
  {KeyEvent(c, 1) : c \in {30, 183, 184, MACROMODE, 240}} \cup {KeyEvent(30, 0)}

InitKeys == InitWith({1}, {50}, FALSE)

NextKeys ==
  \/ Grab \/ LoopTest \/ Select \/ Read(MacroEvents) \/ BatchDone
  \/ Deliver \/ Sleep \/ CloseDevice
  \/ KeyPressDone \/ SetCapture

SpecKeys == InitKeys /\ [][NextKeys]_vars

\* The device-level keys, from every brightness: the game mode key with
\* every value a record can carry, a pressed brightness-up key and a
\* repeating brightness-down key
DeviceEvents ==
  {KeyEvent(GAMEMODE, v) : v \in 0 .. 3}
    \cup {KeyEvent(BRIGHTNESSUP, 1), KeyEvent(BRIGHTNESSDOWN, 2)}

InitDevice == InitWith({1}, MinBrightness .. MaxBrightness, FALSE)

NextDevice ==
  \/ Grab \/ LoopTest \/ Select \/ Read(DeviceEvents) \/ BatchDone
  \/ Deliver \/ Sleep \/ CloseDevice

SpecDevice == InitDevice /\ [][NextDevice]_vars

\* Macro recording next to the device-level keys and the key store: one
\* event file; presses of the macro mode key, a macro slot key, the game
\* mode key, the brightness-up key, a plain key and a key missing from
\* KEY_MAP; release and autorepeat of the plain key; capture switched on and
\* off
RecordingEvents ==
  {KeyEvent(c, 1) : c \in {MACROMODE, 183, GAMEMODE, BRIGHTNESSUP, 30, 240}}
    \cup {KeyEvent(30, 0), KeyEvent(30, 2)}

InitRecording == InitWith({1}, {50}, FALSE)

NextRecording ==
  \/ Grab \/ LoopTest \/ Select \/ Read(RecordingEvents) \/ BatchDone
  \/ Deliver \/ Sleep \/ CloseDevice
  \/ SetCapture

SpecRecording == InitRecording /\ [][NextRecording]_vars

\* Capture of presses into the key store, watcher thread only: one event
\* file; press, release and autorepeat of a plain key, a press of the game
\* mode key, press and release of a key missing from KEY_MAP; capture
\* switched on and off; a ticking clock
CaptureEvents ==
  {KeyEvent(30, v) : v \in 0 .. 2}
    \cup {KeyEvent(GAMEMODE, 1), KeyEvent(240, 1), KeyEvent(240, 0)}

InitCapture == InitWith({1}, {50}, FALSE)

NextCapture ==
  \/ Grab \/ LoopTest \/ Select \/ Read(CaptureEvents) \/ BatchDone
  \/ Deliver \/ Sleep \/ CloseDevice
  \/ SetCapture \/ Tick

SpecCapture == InitCapture /\ [][NextCapture]_vars

\* The constructor next to the watcher it has just started (line 152): one
\* or two event files, presses of a plain key and spacers; nobody else has
\* the manager yet
ConstructEvents == {KeyEvent(30, 1), SynEvent}

InitConstruct == InitAt(1 .. NumSources, {50}, FALSE, "store_active")

NextConstruct ==
  \/ Grab \/ LoopTest \/ Select \/ Read(ConstructEvents) \/ BatchDone
  \/ Deliver \/ Sleep \/ CloseDevice
  \/ Construct

SpecConstruct == InitConstruct /\ [][NextConstruct]_vars

\* The client library on its own: a program calls Binding's methods with
\* arguments of any type
InitClient == InitWith({0}, {50}, FALSE)

NextClient ==
  \/ add_profile \/ remove_profile \/ set_active_profile \/ add_map
  \/ add_action \/ remove_action

SpecClient == InitClient /\ [][NextClient]_vars

\* ---------------------------------------------------------- properties
\* The KeyWatcher thread has ended, by returning from run() or by an
\* exception that left it
Terminated == wpc \in {"stopped", "crashed"}

AllClosedOnce == \A s \in Sources : closes[s] = 1

\* C1: once the KeyWatcher thread has terminated, close() has been
\* attempted exactly once on every owned event source, whatever ended it.
C1_ClosedWhenTerminated == Terminated => AllClosedOnce

\* C2: after a read has failed with an I/O error the watcher reads no source
\* again, closes no source twice, and ends stopped with close() attempted
\* exactly once on every owned source, a failing close included.
C2_ReadFailureStops ==
  /\ [][readFailed => nreads' = nreads]_vars
  /\ [](readFailed => \A s \in Sources : closes[s] <= 1)
  /\ readFailed ~> (wpc = "stopped" /\ AllClosedOnce)

\* C2 witness: a read failed, the watcher stopped, both sources were closed
\* once and one of the closes raised.
C2_Witness ==
  /\ readFailed /\ wpc = "stopped" /\ event_files = 2
  /\ AllClosedOnce /\ closeFailed # {}

\* C3: the evict-and-append steps of key_action and the evict-and-copy steps
\* of the temp_key_store reader do not interleave, so that no pop of either
\* thread removes an entry that has not expired for that thread.
C3_NoLiveEntryRemoved ==
  [][/\ (wpc = "ka_pop" /\ wpc' # wpc /\ store' # store) =>
          Expired(Head(store), ka.now)
     /\ (rpc = "pop" /\ rpc' # rpc /\ store' # store) =>
          Expired(Head(store), rnow)]_vars

\* a is b with some entries left out, the rest in the same order
RECURSIVE IsSubSeq(_, _)
IsSubSeq(a, b) ==
  IF a = <<>> THEN TRUE
  ELSE IF b = <<>> THEN FALSE
  ELSE IF Head(a) = Head(b) THEN IsSubSeq(Tail(a), Tail(b))
  ELSE IsSubSeq(a, Tail(b))

\* The entries of s whose expiry is later than t
LaterThan(s, t) == LET Later(e) == e[1] > t IN SelectSeq(s, Later)

\* C4: when the calls of key_action and the reads do not overlap, a read at
\* time t returns, in insertion order, every recorded press whose expiry is
\* later than t and no entry whose expiry is earlier than t.
C4_ReadReturnsLiveEntries ==
  [][(rpc = "copy" /\ rpc' = "idle" /\ ~raced) =>
       /\ IsSubSeq(result', recorded)
       /\ LaterThan(result', rnow) = LaterThan(recorded, rnow)
       /\ \A i \in 1 .. Len(result') : result'[i][1] >= rnow]_vars

\* C4 witness: of two recorded presses a read returned the second and not
\* the first, which had expired by the time of the read.
C4_Witness ==
  /\ rpc = "idle" /\ ~raced /\ Len(recorded) = 2
  /\ result = <<recorded[2]>> /\ recorded[1][1] < rnow

\* C5: every close() call after the first one has no side effect: no
\* remove_observer, no shutdown signal, no error report.
C5_LaterCloseHasNoEffect == \A k \in 2 .. Len(closeLog) : closeLog[k] = 0

\* The record the watcher forwards next, decoded
NextCall == parse_event_record(Head(events))

\* The step is a whole key_action call (runs with Deliver)
KeyActionStep ==
  /\ wpc = "event" /\ events # <<>> /\ events' # events
  /\ NextCall.action # "none"

\* C6 as claimed: every key_action call with a code that is not reserved,
\* made while macro_mode is false, starts exactly one key_press dispatch
\* with that code and action.
C6_EveryCallDispatches ==
  [][(KeyActionStep /\ NextCall.code \notin ReservedCodes /\ ~macro_mode) =>
       inflight' = inflight (+) SetToBag({<<NextCall.code, NextCall.action>>})]_vars

\* C6 amended: every key_action call with a code that is not reserved, made
\* while macro_mode is false, that does not fail in the key-symbol lookup (a
\* press of a code without a KEY_MAP entry while capture is active) starts
\* exactly one key_press dispatch with that code and action and returns with
\* the dispatch still running.
C6_CallDispatchesUnlessLookupFails ==
  [][(/\ KeyActionStep /\ NextCall.code \notin ReservedCodes /\ ~macro_mode
      /\ ~(NextCall.action = "press" /\ capture
           /\ NextCall.code \notin DOMAIN KEY_MAP)) =>
       /\ inflight' = inflight (+) SetToBag({<<NextCall.code, NextCall.action>>})
       /\ wpc' = "event"]_vars

\* C6 witness: key_action(30, 'release') has returned to the watcher while
\* its dispatch and an earlier one are still running.
C6_Witness ==
  /\ wpc = "event" /\ ka.code = 30 /\ ka.action = "release" /\ ~macro_mode
  /\ BagIn(<<30, "release">>, inflight) /\ BagCardinality(inflight) >= 2

\* C7: macro_key only ever changes from None to a macro slot code, and only
\* while macro_mode is true; once set it is neither changed nor cleared.
C7_MacroKeySetOnce ==
  [][macro_key' # macro_key =>
       (macro_key = NoKey /\ macro_key' \in MacroSlots /\ macro_mode)]_vars

\* C7 witness: with macro_mode true and macro_key 183, key_action(184, _)
\* has run and macro_key is still 183.
C7_Witness ==
  /\ macro_mode /\ macro_key = 183 /\ ka.code = 184 /\ wpc = "event"

\* C8: key_action(194, _) writes back min(b + 10, 100) and key_action(190, _)
\* writes back max(b - 10, 0) for the brightness b it read; the value written
\* is always within [0, 100].
C8_BrightnessClamped ==
  [][KeyActionStep =>
       /\ NextCall.code = 194 =>
            brightness' = IF brightness + 10 > 100 THEN 100 ELSE brightness + 10
       /\ NextCall.code = 190 =>
            brightness' = IF brightness - 10 < 0 THEN 0 ELSE brightness - 10
       /\ brightness' \in 0 .. 100]_vars

\* C8 witness: key_action(194, _) read brightness 95 and wrote 100.
C8_Witness ==
  /\ ka.code = 194 /\ ka.current_brightness = 95 /\ brightness = 100
  /\ wpc = "event"

\* C9: every key_action call with code 189, whatever the action, writes back
\* the negation of the game mode it read; the second of two consecutive such
\* calls writes the value the first one read.
C9_GameModeToggles ==
  [][(KeyActionStep /\ NextCall.code = 189) =>
       /\ gameMode' = ~gameMode
       /\ ka.code = 189 => gameMode' = ka.game_mode]_vars

\* C9 witness: a second consecutive key_action(189, 'autorepeat') has put
\* game mode back to the value the first call read.
C9_Witness ==
  /\ ka.code = 189 /\ ka.action = "autorepeat" /\ ka.game_mode /\ ~gameMode
  /\ wpc = "event"

\* C10: a watcher that finds the shutdown flag set at the top of its loop
\* starts no poll cycle any more, and once the flag of a live watcher is set
\* the watcher ends: stopped, with every owned source closed once, unless
\* the key_action call in flight does not return but raises.
C10_ShutdownStops ==
  /\ [][(wpc = "loop" /\ shutdown) => wpc' \in {"loop", "closing"}]_vars
  /\ [][(wpc \in {"closing", "stopped"}) =>
          (wpc' \in {"closing", "stopped"})]_vars
  /\ (shutdown /\ Alive) ~>
       (wpc = "crashed" \/ (wpc = "stopped" /\ AllClosedOnce))

\* C10 witness: close() set the flag of a watcher that had polled events and
\* no read had failed; the watcher stopped with its sources closed.
C10_Witness ==
  /\ wpc = "stopped" /\ shutdown /\ ~readFailed /\ polls > 0
  /\ closeLog # <<>> /\ AllClosedOnce /\ event_files = 2

\* C11 as claimed: over every sequence of key_action calls, the value of
\* macro_mode changes only in a call whose key code is 188.
C11_OnlyMacroModeKeyChanges ==
  [][macro_mode' # macro_mode => (KeyActionStep /\ NextCall.code = 188)]_vars

\* C11 amended: macro_mode changes only in a key_action call, and that call
\* either has key code 188 or is made while macro_mode is true and macro_key
\* is unset with a code that is neither reserved nor a macro slot, and then
\* macro_mode becomes false.
C11_MacroModeKeyOrForcedExit ==
  [][macro_mode' # macro_mode =>
       /\ KeyActionStep
       /\ \/ NextCall.code = 188
          \/ /\ macro_mode /\ ~macro_mode' /\ macro_key = NoKey
             /\ NextCall.code \notin {183, 184, 185, 186, 187}
             /\ NextCall.code \notin {188, 189, 190, 194}]_vars

\* C11 witness: key_action(30, 'press'), made in macro mode with no macro
\* key, has put macro_mode back to false.
C11_Witness ==
  /\ wpc = "event" /\ ka.code = 30 /\ ka.action = "press"
  /\ ka.macro_mode /\ ka.macro_key = NoKey /\ ~macro_mode

\* C12: the manager is registered as an observer of its parent from
\* construction until close() is called, and once a close() call has returned
\* it is no longer registered, in every lifecycle: also when there were no
\* event files and when the watcher had already stopped by itself.
C12_UnregisteredAfterClose ==
  /\ closeLog = <<>> => registered
  /\ (closeLog # <<>> /\ cpc = "idle") => ~registered

\* The parameter types the docstrings of Binding's methods document
Documented ==
  [add_profile |-> <<"str">>, remove_profile |-> <<"str">>,
   set_active_profile |-> <<"str">>, add_map |-> <<"str", "str">>,
   add_action |-> <<"str", "str", "int", "action_type", "str">>,
   remove_action |-> <<"str", "str", "int", "int">>]

\* The argument is of the documented type (a bool counts as an int, as it
\* does for Python)
OfType(x, t) ==
  CASE t = "str" -> x.type = "str"
    [] t = "int" -> x.type \in {"int", "bool"}
    [] t = "action_type" ->
         x.type = "str" /\ x.v \in {"key", "map", "shift", "sleep", "execute", "release"}

ArgsValid(c) ==
  \A i \in 1 .. Len(c.args) : OfType(c.args[i], Documented[c.method][i])

\* C13: every Binding method documented as raising ValueError on invalid
\* parameters raises ValueError and issues no DBus call when an argument has
\* the wrong type or, for add_action, action_type is not an allowed action
\* type; with valid arguments it issues exactly one DBus call.
C13_InvalidRaisesValidCalls ==
  [][(call' # call \/ dbus_calls' # dbus_calls) =>
       IF ArgsValid(call')
       THEN dbus_calls' = dbus_calls + 1
       ELSE call'.raised = "ValueError" /\ dbus_calls' = dbus_calls]_vars

\* The number of parent attributes and collaborator calls a step touches
Effects ==
  (IF gameMode' # gameMode THEN 1 ELSE 0)
  + (IF brightness' # brightness THEN 1 ELSE 0)
  + (IF macro_mode' # macro_mode THEN 1 ELSE 0)
  + (IF macro_key' # macro_key THEN 1 ELSE 0)
  + (IF added' # added THEN 1 ELSE 0)
  + (IF inflight' # inflight THEN 1 ELSE 0)

RecordableCall ==
  /\ KeyActionStep /\ macro_mode
  /\ NextCall.code \notin {188, 189, 190, 194}
  /\ NextCall.code \notin {183, 184, 185, 186, 187}

\* The call fails in the key-symbol lookup of line 235
LookupFailure ==
  NextCall.action = "press" /\ capture /\ NextCall.code \notin DOMAIN KEY_MAP

\* What C15 says of a step
C15_Recorded ==
  /\ NextCall.action = "press" =>
       added' = Append(added, <<"Default", "Default", ToString(macro_key),
                                "key", ToString(NextCall.code)>>)
  /\ NextCall.action = "release" =>
       added' = Append(added, <<"Default", "Default", ToString(macro_key),
                                "release", ToString(NextCall.code)>>)
  /\ NextCall.action = "autorepeat" => added' = added
  /\ macro_mode' = macro_mode /\ macro_key' = macro_key

\* C15 as claimed: while macro_mode is true and macro_key is K, a call for a
\* code that is neither reserved nor a macro slot calls addAction once for
\* 'press' ("key", K, code) and once for 'release' ("release", K, code) on
\* the active profile and map, never for 'autorepeat', and leaves macro_mode
\* and macro_key unchanged.
C15_MacroKeyRecords ==
  [][(RecordableCall /\ macro_key # NoKey) => C15_Recorded]_vars

\* C15 amended: the same, for every call that does not fail in the
\* key-symbol lookup (a press of a code without a KEY_MAP entry while capture
\* is active).
C15_MacroKeyRecordsUnlessLookupFails ==
  [][(RecordableCall /\ macro_key # NoKey /\ ~LookupFailure) => C15_Recorded]_vars

\* C15 witness: with macro key 183 being recorded, key_action(30, 'press')
\* has added the one action ("key", 183, 30).
C15_Witness ==
  /\ wpc = "event" /\ ka.code = 30 /\ ka.action = "press" /\ ka.macro_key = 183
  /\ macro_mode /\ macro_key = 183
  /\ added = <<<<"Default", "Default", "183", "key", "30">>>>

\* What C16 says of a step
C16_Exited ==
  /\ ~macro_mode' /\ macro_key' = NoKey
  /\ added' = added /\ inflight' = inflight
  /\ wpc' = "event"

\* C16 as claimed: when macro_mode is true, macro_key is unset and the code
\* is neither reserved nor a macro slot, macro_mode becomes false, macro_key
\* stays unset, nothing is recorded or dispatched and the call returns
\* without an error.
C16_ForcedExit ==
  [][(RecordableCall /\ macro_key = NoKey) => C16_Exited]_vars

\* C16 amended: the same, for every call that does not fail in the
\* key-symbol lookup (a press of a code without a KEY_MAP entry while capture
\* is active).
C16_ForcedExitUnlessLookupFails ==
  [][(RecordableCall /\ macro_key = NoKey /\ ~LookupFailure) => C16_Exited]_vars

\* C16 witness: key_action(30, 'release') found macro mode on without a
\* macro key and has returned with macro mode off, nothing recorded and
\* nothing dispatched.
C16_Witness ==
  /\ wpc = "event" /\ ka.code = 30 /\ ka.action = "release"
  /\ ka.macro_mode /\ ka.macro_key = NoKey
  /\ ~macro_mode /\ macro_key = NoKey /\ added = <<>> /\ inflight = EmptyBag

\* The step leaves in the store what was there, less some entries evicted
\* from the front, followed by the entries new
EvictedThen(new) ==
  \E k \in 0 .. Len(store) : store' = SubSeq(store, k + 1, Len(store)) \o new

\* C17 as claimed: a key_action call appends to the store if and only if the
\* action is 'press' and capture is active, and then exactly the one entry
\* (now + TTL, symbol of the code), whichever branch the code falls in.
C17_AppendsIffPressAndCapture ==
  [][KeyActionStep =>
       IF NextCall.action = "press" /\ capture
       THEN /\ NextCall.code \in DOMAIN KEY_MAP
            /\ EvictedThen(<<<<clock + 2, KEY_MAP[NextCall.code]>>>>)
       ELSE EvictedThen(<<>>)]_vars

\* C17 amended: a key_action call appends to the store if and only if the
\* action is 'press', capture is active and the code has a symbol in the
\* key-symbol table, and then exactly the one entry (now + TTL, symbol of the
\* code), whichever branch the code falls in; a press of a code without a
\* symbol, 'release', 'autorepeat' and any call made while capture is
\* inactive append nothing.
C17_AppendsIffPressCaptureAndSymbol ==
  [][KeyActionStep =>
       IF NextCall.action = "press" /\ capture
          /\ NextCall.code \in DOMAIN KEY_MAP
       THEN EvictedThen(<<<<clock + 2, KEY_MAP[NextCall.code]>>>>)
       ELSE EvictedThen(<<>>)]_vars

\* C17 witness: key_action(189, 'press') at time 1 with capture active has
\* switched game mode on and left the one entry (3, "GAMEMODE") in the store.
C17_Witness ==
  /\ wpc = "event" /\ ka.code = 189 /\ ka.action = "press" /\ ka.now = 1
  /\ capture /\ gameMode /\ store = <<<<3, "GAMEMODE">>>>

\* C18: eviction on the read path and on the key_action path removes every
\* front entry whose expiry is at or before now: when the calls do not
\* overlap, a read at time t returns no entry whose expiry is t or earlier,
\* and key_action at time t leaves no such entry at the front of the store.
C18_EvictsAtExpiry ==
  [][/\ (rpc = "copy" /\ rpc' = "idle" /\ ~raced) =>
          \A i \in 1 .. Len(result') : result'[i][1] > rnow
     /\ (wpc = "ka_test" /\ wpc' = "ka_record" /\ ~raced /\ store # <<>>) =>
          Head(store)[1] > ka.now]_vars

\* C19: a raw record whose event kind is not KEY, or whose value is none of
\* 0, 1 and 2, is dropped: the watcher makes no key_action call for it, so
\* handling it changes neither the parent's attributes, nor the recorded
\* macro actions, the dispatches or the key store.
C19_AmbiguousRecordDropped ==
  [][(/\ wpc = "event" /\ events # <<>> /\ events' # events
      /\ (Head(events).type # 1 \/ Head(events).value \notin {0, 1, 2})) =>
       UNCHANGED <<ka, gameMode, brightness, macro_mode, macro_key, inflight,
                   added, store>>]_vars

\* C20: at watcher start grab() is attempted exactly once on every owned
\* source, all of it before the first poll cycle, and a failed grab is not
\* fatal: the grab loop only ever leads into the polling loop, and the
\* watcher gets there.
C20_GrabOnceThenRun ==
  /\ [](wpc \notin {"unstarted", "grab"} => \A s \in Sources : grabs[s] = 1)
  /\ [](wpc = "grab" => (polls = 0 /\ nreads = 0 /\ ka.action = "none"
                          /\ \A s \in Sources : grabs[s] <= 1))
  /\ [][wpc = "grab" => wpc' \in {"grab", "loop"}]_vars
  /\ (wpc = "grab") ~> (wpc = "loop")

\* C20 witness: the grab of the only source failed, and a key press read
\* from that source has been forwarded to key_action.
C20_Witness ==
  /\ event_files = 1 /\ grabs[1] = 1 /\ grabbed = {}
  /\ nreads > 0 /\ ka.code = 240 /\ ka.action = "press" /\ wpc = "event"

\* C21: key_action(code, 'press') with capture active and a code without an
\* entry in the key-symbol table fails with the lookup error: nothing is
\* appended to the store, and no reserved-key side effect, macro recording
\* or dispatch happens; the same code with capture inactive, or with another
\* action, raises no error and appends nothing.
C21_UnmappedPressFails ==
  [][(KeyActionStep /\ NextCall.code \notin DOMAIN KEY_MAP) =>
       /\ EvictedThen(<<>>)
       /\ IF NextCall.action = "press" /\ capture
          THEN /\ wpc' = "crashed"
               /\ UNCHANGED <<gameMode, brightness, macro_mode, macro_key,
                              added, inflight>>
          ELSE wpc' = "event"]_vars

\* C21 witness: with the press of key 30 at time 0 in the store,
\* key_action(240, 'press') at time 1 has failed with capture active: the
\* store holds the earlier entry only and nothing was dispatched for 240.
C21_Witness ==
  /\ wpc = "crashed" /\ ka.code = 240 /\ ka.action = "press" /\ ka.now = 1
  /\ capture /\ store = <<<<2, "A">>>> /\ ~BagIn(<<240, "press">>, inflight)

\* C22: the watcher thread never executes key_action on a manager whose key
\* store, capture flag, time to live and key map are not all assigned yet:
\* every key_action call finds the constructor finished.
C22_KeyActionAfterConstruction ==
  [][KeyActionStep => ipc = "done"]_vars

\* C23: in a poll cycle in which no read fails every source reported
\* readable is read, also after a source that returned an empty batch: the
\* cycle does not end on a read while a readable source is still unread; and
\* the records of a batch are forwarded to key_action one by one in the
\* order read.
C23_EveryReadySourceRead ==
  [][/\ (wpc = "read" /\ wpc' = "sleep" /\ ~readFailed') => Tail(r) = <<>>
     /\ (wpc = "event" /\ wpc' = "sleep") => r = <<>>
     /\ (KeyActionStep /\ wpc' = "event") =>
          /\ events' = Tail(events)
          /\ ka'.code = NextCall.code /\ ka'.action = NextCall.action]_vars

====
